---- MODULE Spec2Model ----
(***************************************************************************)
(* A model of the transmission RPC client (transmission.go): the session   *)
(* token handshake of Client.Do, the envelope encoding of post, the        *)
(* decoding of request and the three operations built on it.               *)
(*                                                                         *)
(* Go strings whose characters matter (the daemon's result string and the  *)
(* error message built from it) are sequences of one-character strings;    *)
(* request bodies are TLA+ strings built by concatenation; a response body *)
(* is given by the JSON document it holds (or by the fact that it cannot   *)
(* be read or is not JSON).                                                *)
(***************************************************************************)
EXTENDS Integers, Sequences, FiniteSets, TLC

VARIABLES conf, endpoint, sessionID, mem, calls, captured

vars == <<conf, endpoint, sessionID, mem, calls, captured>>

----------------------------------------------------------------------------
(* Bounds and input domains *)

\* longest torrent list handed to RemoveTorrents / returned by the daemon
MaxTorrents == 2

TorrentIds == {3, 12}

\* goroutines that hold a reference to the one client
Procs == {"p1", "p2"}

\* values of the X-Transmission-Session-Id response header ("" = header absent)
SidValues == {"", "t1", "t2"}

StatusConflict == 409

Statuses == {200, StatusConflict, 500}

DefaultAddress == "http://localhost:9091/transmission/rpc"

CustomAddress == "https://nas:9091/transmission/rpc"

\* an address url.Parse rejects (missing protocol scheme)
BadAddress == "://nas"

Configs ==
  { [Address |-> "",            User |-> "",  Password |-> "",  SkipCheckSSL |-> FALSE],
    [Address |-> CustomAddress, User |-> "u", Password |-> "p", SkipCheckSSL |-> TRUE],
    [Address |-> CustomAddress, User |-> "u", Password |-> "",  SkipCheckSSL |-> FALSE],
    [Address |-> CustomAddress, User |-> "",  Password |-> "p", SkipCheckSSL |-> FALSE],
    [Address |-> BadAddress,    User |-> "",  Password |-> "p", SkipCheckSSL |-> FALSE] }

\* the one client instance, as the value of a Torrent's back-reference
ThisClient == "client"

NilClient == "nil"

----------------------------------------------------------------------------
(* Go strings.  A string is the sequence of its characters, each the number of
   its Unicode code point; a byte that is no valid UTF-8 is the negative of
   its value (-128 .. -255).  Session ids, addresses and credentials, whose
   characters no code looks at, stay opaque values. *)

\* the printable ASCII characters U+0020 .. U+005F, in order
AsciiUpper ==
  <<" ", "!", "\"", "#", "$", "%", "&", "'", "(", ")", "*", "+", ",", "-", ".", "/",
    "0", "1", "2", "3", "4", "5", "6", "7", "8", "9", ":", ";", "<", "=", ">", "?",
    "@", "A", "B", "C", "D", "E", "F", "G", "H", "I", "J", "K", "L", "M", "N", "O",
    "P", "Q", "R", "S", "T", "U", "V", "W", "X", "Y", "Z", "[", "\\", "]", "^", "_">>

\* the printable ASCII characters U+0061 .. U+007E, in order
AsciiLower ==
  <<"a", "b", "c", "d", "e", "f", "g", "h", "i", "j", "k", "l", "m", "n", "o",
    "p", "q", "r", "s", "t", "u", "v", "w", "x", "y", "z", "{", "|", "}", "~">>

\* the code point of a printable ASCII character
Code(ch) ==
  IF \E i \in DOMAIN AsciiUpper : AsciiUpper[i] = ch
  THEN 31 + CHOOSE i \in DOMAIN AsciiUpper : AsciiUpper[i] = ch
  ELSE 96 + CHOOSE i \in DOMAIN AsciiLower : AsciiLower[i] = ch

\* the Go string with these printable ASCII characters
Str(chars) == [i \in 1..Len(chars) |-> Code(chars[i])]

\* lower-case hexadecimal, n in width digits
RECURSIVE Hex(_, _)
Hex(n, width) ==
  IF width = 0 THEN <<>>
  ELSE Hex(n \div 16, width - 1)
       \o <<IF (n % 16) < 10 THEN Code("0") + (n % 16) ELSE Code("a") + ((n % 16) - 10)>>

\* strconv.Itoa
RECURSIVE Itoa(_)
Itoa(n) ==
  IF n < 0 THEN <<Code("-")>> \o Itoa(-n)
  ELSE IF n < 10 THEN <<Code("0") + n>>
  ELSE Itoa(n \div 10) \o <<Code("0") + (n % 10)>>

Success == Str(<<"s","u","c","c","e","s","s">>)

DuplicateTorrent ==
  Str(<<"d","u","p","l","i","c","a","t","e"," ","t","o","r","r","e","n","t">>)

\* a status string: n o TAB " x \ y " BEL DEL U+00E9 U+200B U+1F600 LF
QuotedStatus ==
  Str(<<"n","o">>) \o <<9>> \o Str(<<"\"","x","\\","y","\"">>)
  \o <<7, 127, 233, 8203, 128512, 10>>

ErrPrefix ==
  Str(<<"t","r","a","n","s","m","i","s","s","i","o","n",":"," ",
        "r","e","q","u","e","s","t"," ",
        "r","e","s","p","o","n","s","e"," ">>)

\* utf8.MaxRune, the last Unicode code point (U+10FFFF)
MaxRune == 1114111

\* utf8.ValidRune: up to U+10FFFF and no surrogate half
ValidRune(r) == r >= 0 /\ r <= MaxRune /\ ~(r >= 55296 /\ r <= 57343)

\* the code points above U+00FF that are no letter, mark, number, punctuation
\* or symbol: general categories C and Z (separators, controls, format
\* characters, surrogates, private use, non-characters and code points not
\* assigned) of Unicode 15.0, the tables of strconv in Go 1.21 and later, as
\* ranges <<first, last>> in ascending order.  A build with an older Go has
\* the tables of an older Unicode, in which fewer code points are assigned.
NotPrintRanges ==
  <<
    <<888, 889>>, <<896, 899>>, <<907, 907>>, <<909, 909>>, <<930, 930>>,
    <<1328, 1328>>, <<1367, 1368>>, <<1419, 1420>>, <<1424, 1424>>,
    <<1480, 1487>>, <<1515, 1518>>, <<1525, 1541>>, <<1564, 1564>>,
    <<1757, 1757>>, <<1806, 1807>>, <<1867, 1868>>, <<1970, 1983>>,
    <<2043, 2044>>, <<2094, 2095>>, <<2111, 2111>>, <<2140, 2141>>,
    <<2143, 2143>>, <<2155, 2159>>, <<2191, 2199>>, <<2274, 2274>>,
    <<2436, 2436>>, <<2445, 2446>>, <<2449, 2450>>, <<2473, 2473>>,
    <<2481, 2481>>, <<2483, 2485>>, <<2490, 2491>>, <<2501, 2502>>,
    <<2505, 2506>>, <<2511, 2518>>, <<2520, 2523>>, <<2526, 2526>>,
    <<2532, 2533>>, <<2559, 2560>>, <<2564, 2564>>, <<2571, 2574>>,
    <<2577, 2578>>, <<2601, 2601>>, <<2609, 2609>>, <<2612, 2612>>,
    <<2615, 2615>>, <<2618, 2619>>, <<2621, 2621>>, <<2627, 2630>>,
    <<2633, 2634>>, <<2638, 2640>>, <<2642, 2648>>, <<2653, 2653>>,
    <<2655, 2661>>, <<2679, 2688>>, <<2692, 2692>>, <<2702, 2702>>,
    <<2706, 2706>>, <<2729, 2729>>, <<2737, 2737>>, <<2740, 2740>>,
    <<2746, 2747>>, <<2758, 2758>>, <<2762, 2762>>, <<2766, 2767>>,
    <<2769, 2783>>, <<2788, 2789>>, <<2802, 2808>>, <<2816, 2816>>,
    <<2820, 2820>>, <<2829, 2830>>, <<2833, 2834>>, <<2857, 2857>>,
    <<2865, 2865>>, <<2868, 2868>>, <<2874, 2875>>, <<2885, 2886>>,
    <<2889, 2890>>, <<2894, 2900>>, <<2904, 2907>>, <<2910, 2910>>,
    <<2916, 2917>>, <<2936, 2945>>, <<2948, 2948>>, <<2955, 2957>>,
    <<2961, 2961>>, <<2966, 2968>>, <<2971, 2971>>, <<2973, 2973>>,
    <<2976, 2978>>, <<2981, 2983>>, <<2987, 2989>>, <<3002, 3005>>,
    <<3011, 3013>>, <<3017, 3017>>, <<3022, 3023>>, <<3025, 3030>>,
    <<3032, 3045>>, <<3067, 3071>>, <<3085, 3085>>, <<3089, 3089>>,
    <<3113, 3113>>, <<3130, 3131>>, <<3141, 3141>>, <<3145, 3145>>,
    <<3150, 3156>>, <<3159, 3159>>, <<3163, 3164>>, <<3166, 3167>>,
    <<3172, 3173>>, <<3184, 3190>>, <<3213, 3213>>, <<3217, 3217>>,
    <<3241, 3241>>, <<3252, 3252>>, <<3258, 3259>>, <<3269, 3269>>,
    <<3273, 3273>>, <<3278, 3284>>, <<3287, 3292>>, <<3295, 3295>>,
    <<3300, 3301>>, <<3312, 3312>>, <<3316, 3327>>, <<3341, 3341>>,
    <<3345, 3345>>, <<3397, 3397>>, <<3401, 3401>>, <<3408, 3411>>,
    <<3428, 3429>>, <<3456, 3456>>, <<3460, 3460>>, <<3479, 3481>>,
    <<3506, 3506>>, <<3516, 3516>>, <<3518, 3519>>, <<3527, 3529>>,
    <<3531, 3534>>, <<3541, 3541>>, <<3543, 3543>>, <<3552, 3557>>,
    <<3568, 3569>>, <<3573, 3584>>, <<3643, 3646>>, <<3676, 3712>>,
    <<3715, 3715>>, <<3717, 3717>>, <<3723, 3723>>, <<3748, 3748>>,
    <<3750, 3750>>, <<3774, 3775>>, <<3781, 3781>>, <<3783, 3783>>,
    <<3791, 3791>>, <<3802, 3803>>, <<3808, 3839>>, <<3912, 3912>>,
    <<3949, 3952>>, <<3992, 3992>>, <<4029, 4029>>, <<4045, 4045>>,
    <<4059, 4095>>, <<4294, 4294>>, <<4296, 4300>>, <<4302, 4303>>,
    <<4681, 4681>>, <<4686, 4687>>, <<4695, 4695>>, <<4697, 4697>>,
    <<4702, 4703>>, <<4745, 4745>>, <<4750, 4751>>, <<4785, 4785>>,
    <<4790, 4791>>, <<4799, 4799>>, <<4801, 4801>>, <<4806, 4807>>,
    <<4823, 4823>>, <<4881, 4881>>, <<4886, 4887>>, <<4955, 4956>>,
    <<4989, 4991>>, <<5018, 5023>>, <<5110, 5111>>, <<5118, 5119>>,
    <<5760, 5760>>, <<5789, 5791>>, <<5881, 5887>>, <<5910, 5918>>,
    <<5943, 5951>>, <<5972, 5983>>, <<5997, 5997>>, <<6001, 6001>>,
    <<6004, 6015>>, <<6110, 6111>>, <<6122, 6127>>, <<6138, 6143>>,
    <<6158, 6158>>, <<6170, 6175>>, <<6265, 6271>>, <<6315, 6319>>,
    <<6390, 6399>>, <<6431, 6431>>, <<6444, 6447>>, <<6460, 6463>>,
    <<6465, 6467>>, <<6510, 6511>>, <<6517, 6527>>, <<6572, 6575>>,
    <<6602, 6607>>, <<6619, 6621>>, <<6684, 6685>>, <<6751, 6751>>,
    <<6781, 6782>>, <<6794, 6799>>, <<6810, 6815>>, <<6830, 6831>>,
    <<6863, 6911>>, <<6989, 6991>>, <<7039, 7039>>, <<7156, 7163>>,
    <<7224, 7226>>, <<7242, 7244>>, <<7305, 7311>>, <<7355, 7356>>,
    <<7368, 7375>>, <<7419, 7423>>, <<7958, 7959>>, <<7966, 7967>>,
    <<8006, 8007>>, <<8014, 8015>>, <<8024, 8024>>, <<8026, 8026>>,
    <<8028, 8028>>, <<8030, 8030>>, <<8062, 8063>>, <<8117, 8117>>,
    <<8133, 8133>>, <<8148, 8149>>, <<8156, 8156>>, <<8176, 8177>>,
    <<8181, 8181>>, <<8191, 8207>>, <<8232, 8239>>, <<8287, 8303>>,
    <<8306, 8307>>, <<8335, 8335>>, <<8349, 8351>>, <<8385, 8399>>,
    <<8433, 8447>>, <<8588, 8591>>, <<9255, 9279>>, <<9291, 9311>>,
    <<11124, 11125>>, <<11158, 11158>>, <<11508, 11512>>, <<11558, 11558>>,
    <<11560, 11564>>, <<11566, 11567>>, <<11624, 11630>>, <<11633, 11646>>,
    <<11671, 11679>>, <<11687, 11687>>, <<11695, 11695>>, <<11703, 11703>>,
    <<11711, 11711>>, <<11719, 11719>>, <<11727, 11727>>, <<11735, 11735>>,
    <<11743, 11743>>, <<11870, 11903>>, <<11930, 11930>>, <<12020, 12031>>,
    <<12246, 12271>>, <<12284, 12288>>, <<12352, 12352>>, <<12439, 12440>>,
    <<12544, 12548>>, <<12592, 12592>>, <<12687, 12687>>, <<12772, 12783>>,
    <<12831, 12831>>, <<42125, 42127>>, <<42183, 42191>>, <<42540, 42559>>,
    <<42744, 42751>>, <<42955, 42959>>, <<42962, 42962>>, <<42964, 42964>>,
    <<42970, 42993>>, <<43053, 43055>>, <<43066, 43071>>, <<43128, 43135>>,
    <<43206, 43213>>, <<43226, 43231>>, <<43348, 43358>>, <<43389, 43391>>,
    <<43470, 43470>>, <<43482, 43485>>, <<43519, 43519>>, <<43575, 43583>>,
    <<43598, 43599>>, <<43610, 43611>>, <<43715, 43738>>, <<43767, 43776>>,
    <<43783, 43784>>, <<43791, 43792>>, <<43799, 43807>>, <<43815, 43815>>,
    <<43823, 43823>>, <<43884, 43887>>, <<44014, 44015>>, <<44026, 44031>>,
    <<55204, 55215>>, <<55239, 55242>>, <<55292, 63743>>, <<64110, 64111>>,
    <<64218, 64255>>, <<64263, 64274>>, <<64280, 64284>>, <<64311, 64311>>,
    <<64317, 64317>>, <<64319, 64319>>, <<64322, 64322>>, <<64325, 64325>>,
    <<64451, 64466>>, <<64912, 64913>>, <<64968, 64974>>, <<64976, 65007>>,
    <<65050, 65055>>, <<65107, 65107>>, <<65127, 65127>>, <<65132, 65135>>,
    <<65141, 65141>>, <<65277, 65280>>, <<65471, 65473>>, <<65480, 65481>>,
    <<65488, 65489>>, <<65496, 65497>>, <<65501, 65503>>, <<65511, 65511>>,
    <<65519, 65531>>, <<65534, 65535>>, <<65548, 65548>>, <<65575, 65575>>,
    <<65595, 65595>>, <<65598, 65598>>, <<65614, 65615>>, <<65630, 65663>>,
    <<65787, 65791>>, <<65795, 65798>>, <<65844, 65846>>, <<65935, 65935>>,
    <<65949, 65951>>, <<65953, 65999>>, <<66046, 66175>>, <<66205, 66207>>,
    <<66257, 66271>>, <<66300, 66303>>, <<66340, 66348>>, <<66379, 66383>>,
    <<66427, 66431>>, <<66462, 66462>>, <<66500, 66503>>, <<66518, 66559>>,
    <<66718, 66719>>, <<66730, 66735>>, <<66772, 66775>>, <<66812, 66815>>,
    <<66856, 66863>>, <<66916, 66926>>, <<66939, 66939>>, <<66955, 66955>>,
    <<66963, 66963>>, <<66966, 66966>>, <<66978, 66978>>, <<66994, 66994>>,
    <<67002, 67002>>, <<67005, 67071>>, <<67383, 67391>>, <<67414, 67423>>,
    <<67432, 67455>>, <<67462, 67462>>, <<67505, 67505>>, <<67515, 67583>>,
    <<67590, 67591>>, <<67593, 67593>>, <<67638, 67638>>, <<67641, 67643>>,
    <<67645, 67646>>, <<67670, 67670>>, <<67743, 67750>>, <<67760, 67807>>,
    <<67827, 67827>>, <<67830, 67834>>, <<67868, 67870>>, <<67898, 67902>>,
    <<67904, 67967>>, <<68024, 68027>>, <<68048, 68049>>, <<68100, 68100>>,
    <<68103, 68107>>, <<68116, 68116>>, <<68120, 68120>>, <<68150, 68151>>,
    <<68155, 68158>>, <<68169, 68175>>, <<68185, 68191>>, <<68256, 68287>>,
    <<68327, 68330>>, <<68343, 68351>>, <<68406, 68408>>, <<68438, 68439>>,
    <<68467, 68471>>, <<68498, 68504>>, <<68509, 68520>>, <<68528, 68607>>,
    <<68681, 68735>>, <<68787, 68799>>, <<68851, 68857>>, <<68904, 68911>>,
    <<68922, 69215>>, <<69247, 69247>>, <<69290, 69290>>, <<69294, 69295>>,
    <<69298, 69372>>, <<69416, 69423>>, <<69466, 69487>>, <<69514, 69551>>,
    <<69580, 69599>>, <<69623, 69631>>, <<69710, 69713>>, <<69750, 69758>>,
    <<69821, 69821>>, <<69827, 69839>>, <<69865, 69871>>, <<69882, 69887>>,
    <<69941, 69941>>, <<69960, 69967>>, <<70007, 70015>>, <<70112, 70112>>,
    <<70133, 70143>>, <<70162, 70162>>, <<70210, 70271>>, <<70279, 70279>>,
    <<70281, 70281>>, <<70286, 70286>>, <<70302, 70302>>, <<70314, 70319>>,
    <<70379, 70383>>, <<70394, 70399>>, <<70404, 70404>>, <<70413, 70414>>,
    <<70417, 70418>>, <<70441, 70441>>, <<70449, 70449>>, <<70452, 70452>>,
    <<70458, 70458>>, <<70469, 70470>>, <<70473, 70474>>, <<70478, 70479>>,
    <<70481, 70486>>, <<70488, 70492>>, <<70500, 70501>>, <<70509, 70511>>,
    <<70517, 70655>>, <<70748, 70748>>, <<70754, 70783>>, <<70856, 70863>>,
    <<70874, 71039>>, <<71094, 71095>>, <<71134, 71167>>, <<71237, 71247>>,
    <<71258, 71263>>, <<71277, 71295>>, <<71354, 71359>>, <<71370, 71423>>,
    <<71451, 71452>>, <<71468, 71471>>, <<71495, 71679>>, <<71740, 71839>>,
    <<71923, 71934>>, <<71943, 71944>>, <<71946, 71947>>, <<71956, 71956>>,
    <<71959, 71959>>, <<71990, 71990>>, <<71993, 71994>>, <<72007, 72015>>,
    <<72026, 72095>>, <<72104, 72105>>, <<72152, 72153>>, <<72165, 72191>>,
    <<72264, 72271>>, <<72355, 72367>>, <<72441, 72447>>, <<72458, 72703>>,
    <<72713, 72713>>, <<72759, 72759>>, <<72774, 72783>>, <<72813, 72815>>,
    <<72848, 72849>>, <<72872, 72872>>, <<72887, 72959>>, <<72967, 72967>>,
    <<72970, 72970>>, <<73015, 73017>>, <<73019, 73019>>, <<73022, 73022>>,
    <<73032, 73039>>, <<73050, 73055>>, <<73062, 73062>>, <<73065, 73065>>,
    <<73103, 73103>>, <<73106, 73106>>, <<73113, 73119>>, <<73130, 73439>>,
    <<73465, 73471>>, <<73489, 73489>>, <<73531, 73533>>, <<73562, 73647>>,
    <<73649, 73663>>, <<73714, 73726>>, <<74650, 74751>>, <<74863, 74863>>,
    <<74869, 74879>>, <<75076, 77711>>, <<77811, 77823>>, <<78896, 78911>>,
    <<78934, 82943>>, <<83527, 92159>>, <<92729, 92735>>, <<92767, 92767>>,
    <<92778, 92781>>, <<92863, 92863>>, <<92874, 92879>>, <<92910, 92911>>,
    <<92918, 92927>>, <<92998, 93007>>, <<93018, 93018>>, <<93026, 93026>>,
    <<93048, 93052>>, <<93072, 93759>>, <<93851, 93951>>, <<94027, 94030>>,
    <<94088, 94094>>, <<94112, 94175>>, <<94181, 94191>>, <<94194, 94207>>,
    <<100344, 100351>>, <<101590, 101631>>, <<101641, 110575>>,
    <<110580, 110580>>, <<110588, 110588>>, <<110591, 110591>>,
    <<110883, 110897>>, <<110899, 110927>>, <<110931, 110932>>,
    <<110934, 110947>>, <<110952, 110959>>, <<111356, 113663>>,
    <<113771, 113775>>, <<113789, 113791>>, <<113801, 113807>>,
    <<113818, 113819>>, <<113824, 118527>>, <<118574, 118575>>,
    <<118599, 118607>>, <<118724, 118783>>, <<119030, 119039>>,
    <<119079, 119080>>, <<119155, 119162>>, <<119275, 119295>>,
    <<119366, 119487>>, <<119508, 119519>>, <<119540, 119551>>,
    <<119639, 119647>>, <<119673, 119807>>, <<119893, 119893>>,
    <<119965, 119965>>, <<119968, 119969>>, <<119971, 119972>>,
    <<119975, 119976>>, <<119981, 119981>>, <<119994, 119994>>,
    <<119996, 119996>>, <<120004, 120004>>, <<120070, 120070>>,
    <<120075, 120076>>, <<120085, 120085>>, <<120093, 120093>>,
    <<120122, 120122>>, <<120127, 120127>>, <<120133, 120133>>,
    <<120135, 120137>>, <<120145, 120145>>, <<120486, 120487>>,
    <<120780, 120781>>, <<121484, 121498>>, <<121504, 121504>>,
    <<121520, 122623>>, <<122655, 122660>>, <<122667, 122879>>,
    <<122887, 122887>>, <<122905, 122906>>, <<122914, 122914>>,
    <<122917, 122917>>, <<122923, 122927>>, <<122990, 123022>>,
    <<123024, 123135>>, <<123181, 123183>>, <<123198, 123199>>,
    <<123210, 123213>>, <<123216, 123535>>, <<123567, 123583>>,
    <<123642, 123646>>, <<123648, 124111>>, <<124154, 124895>>,
    <<124903, 124903>>, <<124908, 124908>>, <<124911, 124911>>,
    <<124927, 124927>>, <<125125, 125126>>, <<125143, 125183>>,
    <<125260, 125263>>, <<125274, 125277>>, <<125280, 126064>>,
    <<126133, 126208>>, <<126270, 126463>>, <<126468, 126468>>,
    <<126496, 126496>>, <<126499, 126499>>, <<126501, 126502>>,
    <<126504, 126504>>, <<126515, 126515>>, <<126520, 126520>>,
    <<126522, 126522>>, <<126524, 126529>>, <<126531, 126534>>,
    <<126536, 126536>>, <<126538, 126538>>, <<126540, 126540>>,
    <<126544, 126544>>, <<126547, 126547>>, <<126549, 126550>>,
    <<126552, 126552>>, <<126554, 126554>>, <<126556, 126556>>,
    <<126558, 126558>>, <<126560, 126560>>, <<126563, 126563>>,
    <<126565, 126566>>, <<126571, 126571>>, <<126579, 126579>>,
    <<126584, 126584>>, <<126589, 126589>>, <<126591, 126591>>,
    <<126602, 126602>>, <<126620, 126624>>, <<126628, 126628>>,
    <<126634, 126634>>, <<126652, 126703>>, <<126706, 126975>>,
    <<127020, 127023>>, <<127124, 127135>>, <<127151, 127152>>,
    <<127168, 127168>>, <<127184, 127184>>, <<127222, 127231>>,
    <<127406, 127461>>, <<127491, 127503>>, <<127548, 127551>>,
    <<127561, 127567>>, <<127570, 127583>>, <<127590, 127743>>,
    <<128728, 128731>>, <<128749, 128751>>, <<128765, 128767>>,
    <<128887, 128890>>, <<128986, 128991>>, <<129004, 129007>>,
    <<129009, 129023>>, <<129036, 129039>>, <<129096, 129103>>,
    <<129114, 129119>>, <<129160, 129167>>, <<129198, 129199>>,
    <<129202, 129279>>, <<129620, 129631>>, <<129646, 129647>>,
    <<129661, 129663>>, <<129673, 129679>>, <<129726, 129726>>,
    <<129734, 129741>>, <<129756, 129759>>, <<129769, 129775>>,
    <<129785, 129791>>, <<129939, 129939>>, <<129995, 130031>>,
    <<130042, 131071>>, <<173792, 173823>>, <<177978, 177983>>,
    <<178206, 178207>>, <<183970, 183983>>, <<191457, 194559>>,
    <<195102, 196607>>, <<201547, 201551>>, <<205744, 917759>>,
    <<918000, 1114111>>
  >>

\* strconv.IsPrint: letters, marks, numbers, punctuation, symbols and the
\* ASCII space.  Up to U+00FF this is strconv's own test, above it a search
\* of the table; nothing above MaxRune is printable.
IsPrint(r) ==
  IF r <= 255
  THEN (r >= 32 /\ r < 127) \/ (r >= 161 /\ r # 173)
  ELSE /\ r <= MaxRune
       /\ ~\E i \in DOMAIN NotPrintRanges :
             r >= NotPrintRanges[i][1] /\ r <= NotPrintRanges[i][2]

\* strconv.Quote on one character (appendEscapedRune with quote "): an
\* invalid byte is written \xNN; the double quote and the backslash get a
\* backslash in front; a printable character stays; the control characters
\* that have a letter are written with it; any other character below the
\* space, and DEL, is written \xNN, any other below U+10000 \uNNNN and the
\* rest \UNNNNNNNN
EscapeChar(r) ==
  LET bs == Code("\\") IN
  IF r < 0 THEN <<bs, Code("x")>> \o Hex(-r, 2)
  ELSE IF r \in {Code("\""), bs} THEN <<bs, r>>
  ELSE IF IsPrint(r) THEN <<r>>
  ELSE IF r = 7 THEN <<bs, Code("a")>>
  ELSE IF r = 8 THEN <<bs, Code("b")>>
  ELSE IF r = 12 THEN <<bs, Code("f")>>
  ELSE IF r = 10 THEN <<bs, Code("n")>>
  ELSE IF r = 13 THEN <<bs, Code("r")>>
  ELSE IF r = 9 THEN <<bs, Code("t")>>
  ELSE IF r = 11 THEN <<bs, Code("v")>>
  ELSE IF r < 32 \/ r = 127 THEN <<bs, Code("x")>> \o Hex(r, 2)
  ELSE IF ~ValidRune(r) THEN <<bs, Code("u")>> \o Hex(65533, 4)
  ELSE IF r < 65536 THEN <<bs, Code("u")>> \o Hex(r, 4)
  ELSE <<bs, Code("U")>> \o Hex(r, 8)

RECURSIVE EscapeChars(_)
EscapeChars(s) ==
  IF s = <<>> THEN <<>>
  ELSE EscapeChar(Head(s)) \o EscapeChars(Tail(s))

\* fmt's %q verb: a double-quoted Go string literal
Quote(s) == <<Code("\"")>> \o EscapeChars(s) \o <<Code("\"")>>

----------------------------------------------------------------------------
(* encoding/json as used by post: the outgoing envelope, as the characters
   of its text *)

RECURSIVE Join(_)
Join(parts) ==
  IF parts = <<>> THEN <<>>
  ELSE IF Len(parts) = 1 THEN parts[1]
  ELSE parts[1] \o <<Code(",")>> \o Join(Tail(parts))

\* one character inside a JSON string literal (appendString with HTML
\* escaping on, as json.Marshal has it): an invalid byte becomes \ufffd; the
\* double quote and the backslash get a backslash in front; backspace, form
\* feed, newline, carriage return and tab are written with their letter; the
\* other characters below the space, and < > &, are written \u00NN; U+2028
\* and U+2029 are written \u2028 and \u2029; any other character stays
EscapeJSON(r) ==
  LET bs == Code("\\") IN
  IF r < 0 THEN <<bs, Code("u")>> \o Hex(65533, 4)
  ELSE IF r \in {Code("\""), bs} THEN <<bs, r>>
  ELSE IF r = 8 THEN <<bs, Code("b")>>
  ELSE IF r = 12 THEN <<bs, Code("f")>>
  ELSE IF r = 10 THEN <<bs, Code("n")>>
  ELSE IF r = 13 THEN <<bs, Code("r")>>
  ELSE IF r = 9 THEN <<bs, Code("t")>>
  ELSE IF r < 32 \/ r \in {Code("<"), Code(">"), Code("&")}
       THEN <<bs, Code("u")>> \o Hex(r, 4)
  ELSE IF r \in {8232, 8233} THEN <<bs, Code("u")>> \o Hex(r, 4)
  ELSE <<r>>

RECURSIVE EscapeJSONs(_)
EscapeJSONs(s) ==
  IF s = <<>> THEN <<>>
  ELSE EscapeJSON(Head(s)) \o EscapeJSONs(Tail(s))

\* a JSON string literal
EncodeString(s) == <<Code("\"")>> \o EscapeJSONs(s) \o <<Code("\"")>>

\* an integer, inside a JSON string when the field is quoted
EncodeInt(n, quoted) ==
  IF quoted THEN <<Code("\"")>> \o Itoa(n) \o <<Code("\"")>> ELSE Itoa(n)

EncodeBool(b) ==
  IF b THEN Str(<<"t","r","u","e">>) ELSE Str(<<"f","a","l","s","e">>)

\* the ",string" tag option quotes a field only when the field itself is a
\* string, integer, floating point or boolean; on any other kind it is ignored
FieldQuoted(kind, opts) ==
  "string" \in opts /\ kind \in {"bool", "int", "float", "string"}

\* a slice hands the field's options on to the encoder of each element
RECURSIVE EncodeInts(_, _)
EncodeInts(ids, quoted) ==
  IF ids = <<>> THEN <<>>
  ELSE <<EncodeInt(Head(ids), quoted)>> \o EncodeInts(Tail(ids), quoted)

EncodeIntSlice(ids, quoted) ==
  <<Code("[")>> \o Join(EncodeInts(ids, quoted)) \o <<Code("]")>>

RECURSIVE EncodeStrings(_)
EncodeStrings(ss) ==
  IF ss = <<>> THEN <<>>
  ELSE <<EncodeString(Head(ss))>> \o EncodeStrings(Tail(ss))

EncodeStringSlice(ss) ==
  <<Code("[")>> \o Join(EncodeStrings(ss)) \o <<Code("]")>>

\* a struct: members are <<name, encoded value, omitted>>
RECURSIVE Members(_)
Members(fields) ==
  IF fields = <<>> THEN <<>>
  ELSE (IF Head(fields)[3] THEN <<>>
        ELSE <<EncodeString(Head(fields)[1]) \o <<Code(":")>> \o Head(fields)[2]>>)
       \o Members(Tail(fields))

EncodeStruct(fields) == <<Code("{")>> \o Join(Members(fields)) \o <<Code("}")>>

\* the field list GetTorrents asks for
torrentGetFields ==
  <<Str(<<"i","d">>), Str(<<"n","a","m","e">>), Str(<<"s","t","a","t","u","s">>)>>

\* Fields []string `json:"fields,omitempty"`; Ids []int `json:"ids,omitempty"`
getTorrentArg(fields, ids) ==
  EncodeStruct(<<
    <<Str(<<"f","i","e","l","d","s">>), EncodeStringSlice(fields), fields = <<>>>>,
    <<Str(<<"i","d","s">>), EncodeIntSlice(ids, FALSE), ids = <<>>>> >>)

\* Filename string `json:"filename,omitempty"`; Metainfo string `json:"metainfo,omitempty"`
addTorrentArg(filename, metainfo) ==
  EncodeStruct(<<
    <<Str(<<"f","i","l","e","n","a","m","e">>), EncodeString(filename), filename = <<>>>>,
    <<Str(<<"m","e","t","a","i","n","f","o">>), EncodeString(metainfo), metainfo = <<>>>> >>)

\* Ids []int `json:"ids,string"`; DeleteLocalData bool `json:"delete-local-data,omitempty"`
removeTorrentArg(ids, deleteLocalData) ==
  EncodeStruct(<<
    <<Str(<<"i","d","s">>), EncodeIntSlice(ids, FieldQuoted("slice", {"string"})), FALSE>>,
    <<Str(<<"d","e","l","e","t","e","-","l","o","c","a","l","-","d","a","t","a">>),
      EncodeBool(deleteLocalData), ~deleteLocalData>> >>)

\* the method names of the three operations
TorrentGet == Str(<<"t","o","r","r","e","n","t","-","g","e","t">>)

TorrentAdd == Str(<<"t","o","r","r","e","n","t","-","a","d","d">>)

TorrentRemove == Str(<<"t","o","r","r","e","n","t","-","r","e","m","o","v","e">>)

\* Request{Method, Arguments}: json.Marshal of the envelope
Marshal(method, arguments) ==
  EncodeStruct(<<
    <<Str(<<"m","e","t","h","o","d">>), EncodeString(method), FALSE>>,
    <<Str(<<"a","r","g","u","m","e","n","t","s">>), arguments, FALSE>> >>)

----------------------------------------------------------------------------
(* Errors *)

NoErr == [kind |-> "none", msg |-> <<>>]

\* an error of the transport or of a library: opaque to this package
OpaqueErr(kind) == [kind |-> kind, msg |-> <<>>]

\* fmt.Errorf("transmission: request response %q", result)
ProtocolErr(result) == [kind |-> "protocol", msg |-> ErrPrefix \o Quote(result)]

----------------------------------------------------------------------------
(* Response bodies: the JSON document the daemon (or whatever answers) sent *)

AbsentResult == [t |-> "absent", s |-> <<>>]
NumResult    == [t |-> "num", s |-> <<>>]
StrResult(s) == [t |-> "str", s |-> s]

AbsentTorrents == [t |-> "absent", items |-> <<>>]
AbsentAdded    == [t |-> "absent", id |-> 0]

AbsentArgs == [t |-> "absent", torrents |-> AbsentTorrents, added |-> AbsentAdded]
NullArgs   == [t |-> "null", torrents |-> AbsentTorrents, added |-> AbsentAdded]
StrArgs    == [t |-> "str", torrents |-> AbsentTorrents, added |-> AbsentAdded]
ObjArgs(torrents, added) == [t |-> "obj", torrents |-> torrents, added |-> added]

\* what the daemon lists: the first n of its torrents
DaemonTorrents(n) ==
  [i \in 1..n |-> IF i % 2 = 1 THEN 3 ELSE 12]

JsonBody(result, arguments) ==
  [readable |-> TRUE, json |-> "object", result |-> result, arguments |-> arguments]

\* a body whose Read fails
BrokenBody ==
  [readable |-> FALSE, json |-> "invalid", result |-> AbsentResult, arguments |-> AbsentArgs]

\* e.g. the HTML page of a 409
HtmlBody ==
  [readable |-> TRUE, json |-> "invalid", result |-> AbsentResult, arguments |-> AbsentArgs]

\* valid JSON that is no object: []
ArrayBody ==
  [readable |-> TRUE, json |-> "array", result |-> AbsentResult, arguments |-> AbsentArgs]

Bodies ==
  { BrokenBody, HtmlBody, ArrayBody,
    JsonBody(AbsentResult, AbsentArgs),
    JsonBody(NumResult, AbsentArgs),
    JsonBody(StrResult(DuplicateTorrent), AbsentArgs),
    JsonBody(StrResult(QuotedStatus), AbsentArgs),
    JsonBody(StrResult(Success), AbsentArgs),
    JsonBody(StrResult(Success), NullArgs),
    JsonBody(StrResult(Success), StrArgs),
    JsonBody(StrResult(Success),
             ObjArgs([t |-> "null", items |-> <<>>], [t |-> "num", id |-> 0])),
    JsonBody(StrResult(Success),
             ObjArgs([t |-> "num", items |-> <<>>], [t |-> "obj", id |-> 12])) }
  \cup { JsonBody(StrResult(Success),
                  ObjArgs([t |-> "arr", items |-> DaemonTorrents(n)], AbsentAdded))
         : n \in 0..MaxTorrents }

Responses == [status : Statuses, sid : SidValues, body : Bodies]

----------------------------------------------------------------------------
(* encoding/json as used by request: decoding into Response *)

\* a Torrent record as decoded: its identifier, and no client yet
Torrent(id) == [ID |-> id, Client |-> NilClient]

NilList == [nil |-> TRUE, items |-> <<>>]
NilTorrent == [nil |-> TRUE, val |-> Torrent(0)]

\* &Response{Arguments: dest}: dest is "nil" (no destination), "Torrents"
\* (&Torrents{}) or "added" (&added{})
NewResponse(dest) ==
  [Result |-> <<>>,
   Arguments |-> [type |-> dest, Torrents |-> NilList, Torrent |-> NilTorrent]]

\* the container of a torrent-get reply: Torrents *[]Torrent `json:"torrents"`
Torrents(jt, dst) ==
  CASE jt.t = "arr" ->
         [err |-> FALSE,
          v |-> [dst EXCEPT !.Torrents =
                   [nil |-> FALSE,
                    items |-> [i \in 1..Len(jt.items) |-> Torrent(jt.items[i])]]]]
    \* the pointer is set to a new, empty list before the number is refused
    [] jt.t = "num" ->
         [err |-> TRUE,
          v |-> [dst EXCEPT !.Torrents = [nil |-> FALSE, items |-> <<>>]]]
    [] OTHER -> [err |-> FALSE, v |-> dst]

\* type added struct { Torrent *Torrent `json:"torrent-added"` }
added(jd, dst) ==
  CASE jd.t = "obj" ->
         [err |-> FALSE,
          v |-> [dst EXCEPT !.Torrent = [nil |-> FALSE, val |-> Torrent(jd.id)]]]
    \* the pointer is set to a new, zero Torrent before the number is refused
    [] jd.t = "num" ->
         [err |-> TRUE,
          v |-> [dst EXCEPT !.Torrent = [nil |-> FALSE, val |-> Torrent(0)]]]
    [] OTHER -> [err |-> FALSE, v |-> dst]

\* the "arguments" member, decoded into the interface value Response.Arguments
DecodeArguments(ja, dst) ==
  CASE ja.t = "absent" -> [err |-> FALSE, v |-> dst]
    [] ja.t = "null" -> [err |-> FALSE, v |-> [dst EXCEPT !.type = "nil"]]
    [] ja.t = "str" ->
         IF dst.type \in {"nil", "value"}
         THEN [err |-> FALSE, v |-> [dst EXCEPT !.type = "value"]]
         ELSE [err |-> TRUE, v |-> dst]
    [] ja.t = "obj" ->
         CASE dst.type = "Torrents" -> Torrents(ja.torrents, dst)
           [] dst.type = "added" -> added(ja.added, dst)
           [] OTHER -> [err |-> FALSE, v |-> [dst EXCEPT !.type = "value"]]

\* json.Unmarshal(body, tResp): a type error does not stop the decoding of the
\* other members, and is returned at the end
Unmarshal(body, tResp) ==
  IF body.json # "object" THEN [err |-> TRUE, v |-> tResp]
  ELSE LET a == DecodeArguments(body.arguments, tResp.Arguments) IN
       [err |-> body.result.t = "num" \/ a.err,
        v |-> [Result |-> IF body.result.t = "str" THEN body.result.s
                          ELSE tResp.Result,
               Arguments |-> a.v]]

\* request refusing every response whose status is an HTTP error
request_ChecksStatus(post, tResp) ==
  IF post.err.kind # "none" THEN [err |-> post.err, v |-> tResp]
  ELSE IF post.status >= 400 THEN [err |-> OpaqueErr("status"), v |-> tResp]
  ELSE IF ~post.body.readable THEN [err |-> OpaqueErr("read"), v |-> tResp]
  ELSE LET u == Unmarshal(post.body, tResp) IN
       IF u.err THEN [err |-> OpaqueErr("decode"), v |-> u.v]
       ELSE IF u.v.Result # Success
            THEN [err |-> ProtocolErr(u.v.Result), v |-> u.v]
            ELSE [err |-> NoErr, v |-> u.v]

\* request, from the return of post on: post is what Do returned
request(post, tResp) ==
  IF post.err.kind # "none" THEN [err |-> post.err, v |-> tResp]
  ELSE IF ~post.body.readable THEN [err |-> OpaqueErr("read"), v |-> tResp]
  ELSE LET u == Unmarshal(post.body, tResp) IN
       IF u.err THEN [err |-> OpaqueErr("decode"), v |-> u.v]
       ELSE IF u.v.Result # Success
            THEN [err |-> ProtocolErr(u.v.Result), v |-> u.v]
            ELSE [err |-> NoErr, v |-> u.v]

----------------------------------------------------------------------------
(* The operations, from the return of request on *)

NoTorrents == <<>>

Outcome(kind, err, torrents, status) ==
  [kind |-> kind, err |-> err, torrents |-> torrents, status |-> status]

NoOutcome == Outcome("none", NoErr, NoTorrents, 0)

Failed(err) == Outcome("err", err, NoTorrents, 0)

\* a run-time panic: a nil dereference or a failed type assertion
Panic == Outcome("panic", NoErr, NoTorrents, 0)

\* t[i].Client = c
Stamp(t, c) == [t EXCEPT !.Client = c]

\* the stamping loop started one element late
GetTorrents_SkipsFirst(r, c) ==
  IF r.err.kind # "none" THEN Failed(r.err)
  ELSE IF r.v.Arguments.type # "Torrents" THEN Panic
  ELSE IF r.v.Arguments.Torrents.nil THEN Panic
  ELSE LET t == r.v.Arguments.Torrents.items IN
       Outcome("ok", NoErr,
               [i \in 1..Len(t) |-> IF i = 1 THEN t[i] ELSE Stamp(t[i], c)], 0)

\* GetTorrents: r is what request left in the Response, c the receiver
GetTorrents(r, c) ==
  IF r.err.kind # "none" THEN Failed(r.err)
  ELSE IF r.v.Arguments.type # "Torrents" THEN Panic
  ELSE IF r.v.Arguments.Torrents.nil THEN Panic
  ELSE LET t == r.v.Arguments.Torrents.items IN
       Outcome("ok", NoErr, [i \in 1..Len(t) |-> Stamp(t[i], c)], 0)

AddTorrent(r, c) ==
  IF r.err.kind # "none" THEN Failed(r.err)
  ELSE IF r.v.Arguments.type # "added" THEN Panic
  ELSE IF r.v.Arguments.Torrent.nil THEN Panic
  ELSE Outcome("ok", NoErr, <<Stamp(r.v.Arguments.Torrent.val, c)>>, 0)

RemoveTorrents(r) ==
  IF r.err.kind # "none" THEN Failed(r.err)
  ELSE Outcome("ok", NoErr, NoTorrents, 0)

----------------------------------------------------------------------------
(* The HTTP request object and Client.Do *)

\* bytes.NewBuffer(b) / bytes.NewReader(b): a stream that is read once
NewBuffer(b) == [data |-> b, readable |-> TRUE, consumed |-> FALSE]

\* a caller's stream whose Read fails
FailingReader == [data |-> <<>>, readable |-> FALSE, consumed |-> FALSE]

\* ioutil.ReadAll: what is left of the stream, or the stream's error
ReadAll(body) ==
  IF ~body.readable THEN [err |-> TRUE, b |-> <<>>]
  ELSE [err |-> FALSE, b |-> IF body.consumed THEN <<>> ELSE body.data]

NoRequest == [auth |-> <<>>, sid |-> <<>>, body |-> NewBuffer(<<>>)]

\* http.NewRequest("POST", url, body): fails when the URL does not parse
NewRequest(url, body) ==
  IF url = BadAddress THEN [err |-> TRUE, req |-> NoRequest]
  ELSE [err |-> FALSE, req |-> [auth |-> <<>>, sid |-> <<>>, body |-> body]]

\* req.SetBasicAuth: sets (replaces) the Authorization header
SetBasicAuth(req, user, password) == [req EXCEPT !.auth = <<user, password>>]

\* req.Header.Add: appends one more value to the header
HeaderAdd(req, value) == [req EXCEPT !.sid = Append(@, value)]

\* Header.Get: the first value of the header, "" when there is none
HeaderGet(values) == IF values = <<>> THEN "" ELSE values[1]

\* credentials attached as soon as a user name is configured
AttachAuth_UserOnly(req) ==
  IF conf.User # "" THEN SetBasicAuth(req, conf.User, conf.Password) ELSE req

AttachAuth(req) ==
  IF conf.User # "" /\ conf.Password # ""
  THEN SetBasicAuth(req, conf.User, conf.Password) ELSE req

AttachSession(req, token) ==
  IF token # "" THEN HeaderAdd(req, token) ELSE req

\* what the transport puts on the wire for req
Wire(req) == [auth |-> req.auth, sid |-> req.sid, body |-> ReadAll(req.body).b]

\* the result Do hands back: an error, or the response
DoError(err) == [err |-> err, some |-> FALSE, status |-> 0, body |-> BrokenBody]
DoResp(resp) == [err |-> NoErr, some |-> TRUE, status |-> resp.status, body |-> resp.body]

IdleCall ==
  [pc |-> "idle", op |-> "none",
   ids |-> <<>>, removeData |-> FALSE, filename |-> <<>>, metadata |-> <<>>,
   retry0 |-> FALSE, retry |-> FALSE, token0 |-> "",
   req |-> NoRequest, b |-> <<>>,
   sent |-> <<>>, resps |-> <<>>,
   pend |-> "", half |-> "", ovl |-> FALSE, racy |-> FALSE,
   hdr |-> FALSE, tok |-> [ptr |-> "", len |-> 0],
   ret |-> DoError(NoErr), rerr |-> NoErr, out |-> NoOutcome]

\* the destination each operation hands to request
Dest(op) ==
  CASE op = "GetTorrents" -> "Torrents"
    [] op = "AddTorrent" -> "added"
    [] OTHER -> "nil"

\* the return of Do travels up through post and request to the operation
Finish(call, ret) ==
  LET r == request(ret, NewResponse(Dest(call.op)))
      out ==
        CASE call.op = "GetTorrents" -> GetTorrents(r, ThisClient)
          [] call.op = "AddTorrent" -> AddTorrent(r, ThisClient)
          [] call.op = "RemoveTorrents" -> RemoveTorrents(r)
          [] OTHER ->
               IF ret.err.kind # "none" THEN Failed(ret.err)
               ELSE Outcome("ok", NoErr, NoTorrents, ret.status)
  IN [call EXCEPT !.pc = "done", !.ret = ret, !.out = out,
                  !.rerr = IF call.op = "Do" THEN ret.err ELSE r.err]

\* Do returns the transport's response: a caller of Do has its result; in
\* request, post returns and ioutil.ReadAll(resp.Body) waits for the body
Returned(call, ret) ==
  IF call.op = "Do" THEN Finish(call, ret)
  ELSE [call EXCEPT !.pc = "body", !.ret = ret]

\* Do up to the hand-over to the transport: token is c.sessionID as read here
Do(call, req, retry, token) ==
  LET withAuth == AttachAuth(req)
      withSid == AttachSession(withAuth, token)
      rd == ReadAll(withSid.body)
      ready == [withSid EXCEPT !.body = NewBuffer(rd.b)]
  IN IF rd.err
     THEN Finish([call EXCEPT !.req = withSid, !.retry = retry],
                 DoError(OpaqueErr("bodyread")))
     ELSE [call EXCEPT !.pc = "inflight", !.req = ready, !.b = rd.b,
                       !.retry = retry, !.sent = Append(@, Wire(ready))]

\* the retry flag forgotten
ShouldRetry_IgnoresFlag(status, retry) == status = StatusConflict

\* server errors retried as well
ShouldRetry_ServerErrors(status, retry) == retry /\ status >= StatusConflict

\* resp.StatusCode == http.StatusConflict && retry
ShouldRetry(status, retry) == status = StatusConflict /\ retry

\* the body left as the transport left it
Replay_BodyLeft(req, b) == req

\* req.Body = ioutil.NopCloser(bytes.NewBuffer(b))
Replay(req, b) == [req EXCEPT !.body = NewBuffer(b)]

\* the token taken from every 409, retried or not
NextSessionID_EveryConflict(token, resp, retry) ==
  IF resp.status = StatusConflict THEN resp.sid ELSE token

\* the token dropped when the server reports an error
NextSessionID_DropsOnServerError(token, resp, retry) ==
  IF ShouldRetry(resp.status, retry) THEN resp.sid
  ELSE IF resp.status >= 500 THEN "" ELSE token

\* the held token kept when the 409 names none
NextSessionID_KeepsOnMissing(token, resp, retry) ==
  IF ShouldRetry(resp.status, retry) /\ resp.sid # "" THEN resp.sid ELSE token

\* the token of the 409 never stored
NextSessionID_NoCapture(token, resp, retry) == token

\* c.sessionID after the response: Header.Get of the response's session id
NextSessionID(token, resp, retry) ==
  IF ShouldRetry(resp.status, retry) THEN resp.sid ELSE token

\* Do from the transport's response on
DoResponse(call, resp) ==
  IF ShouldRetry(resp.status, call.retry)
  THEN Do(call, Replay(call.req, call.b), FALSE,
          NextSessionID(sessionID, resp, call.retry))
  ELSE Returned(call, DoResp(resp))

\* the error of http.NewRequest not looked at
post_IgnoresError(call, data) ==
  Do(call, NewRequest(endpoint, NewBuffer(data)).req, TRUE, sessionID)

\* post: marshal, build the request, Do with retry enabled
post(call, data) ==
  LET nr == NewRequest(endpoint, NewBuffer(data)) IN
  IF nr.err THEN Finish(call, DoError(OpaqueErr("newrequest")))
  ELSE Do(call, nr.req, TRUE, sessionID)

----------------------------------------------------------------------------
(* The field c.sessionID in memory: a Go string is two words, the pointer to
   its bytes and its length.  mem.ptr names the string whose bytes the pointer
   addresses, mem.len is the length word. *)

\* the two words of the string s
WordsOf(s) == [ptr |-> s, len |-> Len(s)]

\* the empty string has the nil pointer: words with the pointer of the empty
\* string and a length above 0 are a string at address 0, and reading its
\* bytes is a nil dereference
NilString(w) == w.ptr = "" /\ w.len > 0

\* the string two words denote: s itself when they are the words of one
\* string s, the empty string when the length is 0, and otherwise a string of
\* mem.len bytes that is none of the strings ever assigned (its bytes are
\* those found at the pointer: a part of the string there, or that string
\* and what follows it in memory; there are none to read when NilString)
Load(w) ==
  IF w.len = Len(w.ptr) THEN w.ptr
  ELSE IF w.len = 0 THEN ""
  ELSE "<" \o ToString(w.len) \o " bytes at " \o w.ptr \o ">"

----------------------------------------------------------------------------
(* The state machine *)

\* New(conf): the address defaults, the token starts empty
New(c) ==
  LET cf == [c EXCEPT !.Address = IF @ = "" THEN DefaultAddress ELSE @] IN
  [conf |-> cf, endpoint |-> cf.Address, sessionID |-> ""]

Init ==
  \E c \in Configs :
    /\ conf = New(c).conf
    /\ endpoint = New(c).endpoint
    /\ sessionID = New(c).sessionID
    /\ calls = [p \in Procs |-> IdleCall]
    /\ mem = WordsOf(New(c).sessionID)
    /\ captured = [has |-> FALSE, tok |-> "", clean |-> TRUE]

\* what callers hand to RemoveTorrents: <<identifiers of torrents, removeData>>
RemoveInputs ==
  { <<<<>>, FALSE>>, <<<<3>>, TRUE>>, <<<<3, 12>>, TRUE>>,
    <<<<12, 3>>, TRUE>>, <<<<12, 3>>, FALSE>> }

\* a request body of a caller of Do
Ping == Str(<<"p","i","n","g">>)

\* a magnet link, with a quoted name: magnet:?xt=b&dn="a\b"
MagnetLink ==
  Str(<<"m","a","g","n","e","t",":","?","x","t","=","b","&","d","n","=",
        "\"","a","\\","b","\"">>)

\* base64 of a torrent file's content
Metainfo == Str(<<"b","W","V","0","Y","Q","=","=">>)

AddInputs == { <<MagnetLink, <<>>>>, <<<<>>, Metainfo>> }

\* calls are issued one after the other
NoCallRunning == \A q \in Procs : calls[q].pc = "idle"

Begin(op) ==
  [IdleCall EXCEPT !.op = op, !.retry0 = TRUE, !.token0 = sessionID]

CallGetTorrents(p) ==
  /\ NoCallRunning
  /\ calls' = [calls EXCEPT ![p] =
       post(Begin("GetTorrents"),
            Marshal(TorrentGet, getTorrentArg(torrentGetFields, <<>>)))]
  /\ UNCHANGED <<conf, endpoint, sessionID, mem, captured>>

CallAddTorrent(p, filename, metadata) ==
  /\ NoCallRunning
  /\ calls' = [calls EXCEPT ![p] =
       post([Begin("AddTorrent") EXCEPT !.filename = filename, !.metadata = metadata],
            Marshal(TorrentAdd, addTorrentArg(filename, metadata)))]
  /\ UNCHANGED <<conf, endpoint, sessionID, mem, captured>>

\* torrents is given by the identifiers of its members
CallRemoveTorrents(p, ids, removeData) ==
  /\ NoCallRunning
  /\ calls' = [calls EXCEPT ![p] =
       post([Begin("RemoveTorrents") EXCEPT !.ids = ids, !.removeData = removeData],
            Marshal(TorrentRemove, removeTorrentArg(ids, removeData)))]
  /\ UNCHANGED <<conf, endpoint, sessionID, mem, captured>>

\* Do called directly with a request of the caller's
CallDo(p, body, retry) ==
  /\ NoCallRunning
  /\ calls' = [calls EXCEPT ![p] =
       Do([Begin("Do") EXCEPT !.retry0 = retry],
          [auth |-> <<>>, sid |-> <<>>, body |-> body], retry, sessionID)]
  /\ UNCHANGED <<conf, endpoint, sessionID, mem, captured>>

\* c.httpClient.Do returns a response; the transport has read the request
\* body, wholly or not at all
Respond(p, resp, consumed) ==
  /\ calls[p].pc = "inflight"
  /\ LET call == [calls[p] EXCEPT
                    !.req.body.consumed = consumed,
                    !.resps = Append(@, [status |-> resp.status, sid |-> resp.sid])]
     IN /\ calls' = [calls EXCEPT ![p] = DoResponse(call, resp)]
        /\ sessionID' = NextSessionID(sessionID, resp, call.retry)
        /\ mem' = WordsOf(NextSessionID(sessionID, resp, call.retry))
  /\ captured' =
       IF resp.status = StatusConflict /\ calls[p].retry0 /\ Len(calls[p].sent) = 1
       THEN [has |-> TRUE, tok |-> resp.sid, clean |-> TRUE] ELSE captured
  /\ UNCHANGED <<conf, endpoint>>

\* c.httpClient.Do returns an error
TransportError(p) ==
  /\ calls[p].pc = "inflight"
  /\ calls' = [calls EXCEPT ![p] = Finish(calls[p], DoError(OpaqueErr("send")))]
  /\ UNCHANGED <<conf, endpoint, sessionID, mem, captured>>

\* ioutil.ReadAll(resp.Body) returns, with the body or with an error, and
\* request goes on to decode and the operation to return
ReadBody(p) ==
  /\ calls[p].pc = "body"
  /\ calls' = [calls EXCEPT ![p] = Finish(calls[p], calls[p].ret)]
  /\ UNCHANGED <<conf, endpoint, sessionID, mem, captured>>

\* the caller has its result
Return(p) ==
  /\ calls[p].pc = "done"
  /\ calls' = [calls EXCEPT ![p] = IdleCall]
  /\ UNCHANGED <<conf, endpoint, sessionID, mem, captured>>

\* the goroutine that issues the calls when they are serialized
Serial == {"p1"}

Next ==
  \E p \in Serial :
    \/ CallGetTorrents(p)
    \/ \E in \in AddInputs : CallAddTorrent(p, in[1], in[2])
    \/ \E in \in RemoveInputs : CallRemoveTorrents(p, in[1], in[2])
    \/ \E body \in {NewBuffer(Ping), FailingReader}, retry \in BOOLEAN :
         CallDo(p, body, retry)
    \/ \E resp \in Responses, consumed \in BOOLEAN : Respond(p, resp, consumed)
    \/ TransportError(p)
    \/ ReadBody(p)
    \/ Return(p)

Spec == Init /\ [][Next]_vars

\* the answers of a daemon that names one session id and replies with a
\* page, with a bare success or with a body whose read fails
LiveResponses ==
  { r \in Responses :
      /\ r.sid \in {"", "t1"}
      /\ r.body \in {HtmlBody, BrokenBody, JsonBody(StrResult(Success), AbsentArgs)} }

TransportReturnsLive(p) ==
  \/ \E resp \in LiveResponses, consumed \in BOOLEAN : Respond(p, resp, consumed)
  \/ TransportError(p)

NextLive ==
  \E p \in Serial :
    \/ CallGetTorrents(p)
    \/ \E in \in AddInputs : CallAddTorrent(p, in[1], in[2])
    \/ \E in \in RemoveInputs : CallRemoveTorrents(p, in[1], in[2])
    \/ \E body \in {NewBuffer(Ping), FailingReader}, retry \in BOOLEAN :
         CallDo(p, body, retry)
    \/ TransportReturnsLive(p)
    \/ ReadBody(p)
    \/ Return(p)

\* the same program with a transport that completes every exchange in the
\* end: c.httpClient.Do returns a response or an error, and the read of a
\* response's body returns the body or an error
SpecLive ==
  /\ Init /\ [][NextLive]_vars
  /\ \A p \in Serial : WF_vars(TransportReturnsLive(p)) /\ WF_vars(ReadBody(p))

----------------------------------------------------------------------------
(* Two goroutines, each calling GetTorrents once on one client with nothing
   between them.  The client holds no lock, so the reads of c.sessionID in Do
   and the assignment to it after a 409 are unordered against each other:
   the assignment writes the two words of the string one after the other, in
   an order the build chooses, a read in between sees one word of each, and
   the test and the use of the field may see different values. *)

\* what the 409 responses name: no session id, or session ids of different
\* lengths, so that a string made of the words of two of them is neither
RaceSids == {"", "t1", "tok2"}

\* the daemon's answers: a 409 that names a session id, or the list
RaceResponses ==
  [status : {StatusConflict}, sid : RaceSids, body : {HtmlBody}]
  \cup
  [status : {200}, sid : {""},
   body : {JsonBody(StrResult(Success),
                    ObjArgs([t |-> "arr", items |-> DaemonTorrents(1)], AbsentAdded))}]

\* a client of the default address with no credentials
InitRace == Init /\ conf.User = "" /\ endpoint = DefaultAddress

\* some goroutine has written one word of c.sessionID and not yet the other
MidStore(q) == calls[q].pc = "store" /\ calls[q].half # ""

\* GetTorrents up to the call of Do
RaceCall(p) ==
  /\ calls[p].pc = "idle"
  /\ LET data == Marshal(TorrentGet, getTorrentArg(torrentGetFields, <<>>))
         nr == NewRequest(endpoint, NewBuffer(data))
     IN calls' = [calls EXCEPT ![p] =
          IF nr.err
          THEN Finish(Begin("GetTorrents"), DoError(OpaqueErr("newrequest")))
          ELSE [Begin("GetTorrents") EXCEPT !.pc = "enter", !.req = nr.req,
                                            !.retry = TRUE]]
  /\ UNCHANGED <<conf, endpoint, sessionID, mem, captured>>

\* the last assignment to c.sessionID did not complete undisturbed, or one
\* is in progress
Unsettled == (\E q \in Procs : MidStore(q)) \/ ~captured.clean

\* line 82: Do tests c.sessionID against "", which looks at its length; the
\* words read stay with the goroutine
RaceTest(p) ==
  /\ calls[p].pc = "enter"
  /\ calls' = [calls EXCEPT ![p] =
       [@ EXCEPT !.pc = IF mem.len # 0 THEN "add" ELSE "handover",
                 !.hdr = mem.len # 0, !.tok = mem, !.racy = Unsettled]]
  /\ UNCHANGED <<conf, endpoint, sessionID, mem, captured>>

\* line 83: Header.Add(..., c.sessionID) copies the two words into the
\* header without looking at the bytes.  The build passes the words read at
\* line 82, or reads the pointer again, or reads both again: reload is the
\* set of words read again.
RaceAdd(p, reload) ==
  /\ calls[p].pc = "add"
  /\ LET c == calls[p]
         tok == [ptr |-> IF "ptr" \in reload THEN mem.ptr ELSE c.tok.ptr,
                 len |-> IF "len" \in reload THEN mem.len ELSE c.tok.len]
     IN calls' = [calls EXCEPT ![p] =
          [c EXCEPT !.pc = "handover", !.tok = tok,
                    !.racy = @ \/ (reload # {} /\ (Unsettled \/ mem # c.tok))]]
  /\ UNCHANGED <<conf, endpoint, sessionID, mem, captured>>

\* lines 86-96: the body is read, the request logged and handed to the
\* transport, which reads the header values before it sends anything: on a
\* value at address 0 the goroutine panics, and the process and every
\* goroutine with it ends
RaceHandOver(p) ==
  /\ calls[p].pc = "handover"
  /\ LET c == calls[p]
         token == IF c.hdr THEN Load(c.tok) ELSE ""
         here == [c EXCEPT !.token0 = IF c.sent = <<>> THEN token ELSE @]
         req == IF c.hdr /\ token = "" THEN HeaderAdd(c.req, "") ELSE c.req
     IN calls' =
          IF c.hdr /\ NilString(c.tok)
          THEN [q \in Procs |->
                 IF q = p THEN [here EXCEPT !.pc = "crashed", !.out = Panic]
                 ELSE [calls[q] EXCEPT !.pc = "crashed"]]
          ELSE [calls EXCEPT ![p] = Do(here, req, c.retry, token)]
  /\ UNCHANGED <<conf, endpoint, sessionID, mem, captured>>

\* the transport returns a response: on a 409 with retry set the goroutine
\* is about to assign the response's session id
RaceRespond(p, resp, consumed) ==
  /\ calls[p].pc = "inflight"
  /\ LET call == [calls[p] EXCEPT
                    !.req.body.consumed = consumed,
                    !.resps = Append(@, [status |-> resp.status, sid |-> resp.sid])]
     IN calls' = [calls EXCEPT ![p] =
          IF ShouldRetry(resp.status, call.retry)
          THEN [call EXCEPT !.pc = "store", !.half = "",
                            !.pend = NextSessionID(Load(mem), resp, call.retry)]
          ELSE Returned(call, DoResp(resp))]
  /\ UNCHANGED <<conf, endpoint, sessionID, mem, captured>>

\* the first word of the assignment is written
RaceStoreFirst(p, word) ==
  /\ calls[p].pc = "store" /\ calls[p].half = ""
  /\ mem' = [mem EXCEPT ![word] = WordsOf(calls[p].pend)[word]]
  /\ sessionID' = Load(mem')
  /\ calls' = [q \in Procs |->
       IF q = p
       THEN [calls[p] EXCEPT !.half = word,
                             !.ovl = \E r \in Procs \ {p} : MidStore(r)]
       ELSE IF MidStore(q) THEN [calls[q] EXCEPT !.ovl = TRUE]
       ELSE calls[q]]
  /\ UNCHANGED <<conf, endpoint, captured>>

\* the other word is written, the body is put back and Do is called again
\* with retry false
RaceStoreSecond(p) ==
  /\ MidStore(p)
  /\ LET c == calls[p]
         word == IF c.half = "ptr" THEN "len" ELSE "ptr"
     IN /\ mem' = [mem EXCEPT ![word] = WordsOf(c.pend)[word]]
        /\ sessionID' = Load(mem')
        /\ calls' = [calls EXCEPT ![p] =
             [c EXCEPT !.pc = "enter", !.half = "", !.retry = FALSE,
                       !.req = Replay(c.req, c.b)]]
        /\ captured' = [has |-> TRUE, tok |-> c.pend, clean |-> ~c.ovl]
  /\ UNCHANGED <<conf, endpoint>>

NextRace ==
  \E p \in Procs :
    \/ RaceCall(p)
    \/ RaceTest(p)
    \/ \E reload \in {{}, {"ptr"}, {"ptr", "len"}} : RaceAdd(p, reload)
    \/ RaceHandOver(p)
    \/ \E resp \in RaceResponses, consumed \in BOOLEAN : RaceRespond(p, resp, consumed)
    \/ \E word \in {"ptr", "len"} : RaceStoreFirst(p, word)
    \/ RaceStoreSecond(p)
    \/ TransportError(p)
    \/ ReadBody(p)

SpecRace == InitRace /\ [][NextRace]_vars

----------------------------------------------------------------------------
(* Properties *)

RequestOps == {"GetTorrents", "AddTorrent", "RemoveTorrents"}

\* the i-th response of call c was a 409
Conflict(c, i) == Len(c.resps) >= i /\ c.resps[i].status = StatusConflict

\* what json.Unmarshal makes of the response Do returned to call c
Decoded(c) == Unmarshal(c.ret.body, NewResponse(Dest(c.op)))

\* call c got a response back from Do and could read its body
GotBody(c) ==
  c.pc = "done" /\ c.op \in RequestOps /\ c.ret.some /\ c.ret.body.readable

\* C1: a call made with retry enabled sends at most twice, whatever the
\* daemon answers; when it started without a token and the first answer is a
\* 409, it sends exactly once more, with the token of that 409, and never a
\* third time.
C1_AtMostTwoSends ==
  \A p \in Procs :
    LET c == calls[p] IN
    c.retry0 =>
      /\ Len(c.sent) <= 2
      /\ Len(c.resps) <= 2
      /\ (c.token0 = "" /\ Conflict(c, 1)) =>
           /\ Len(c.sent) = 2
           /\ Len(c.sent[2].sid) <= 1
           /\ HeaderGet(c.sent[2].sid) = c.resps[1].sid

\* a call that started without a token was answered 409 twice and is over
C1_Witness ==
  \E p \in Procs :
    LET c == calls[p] IN
    /\ c.pc = "done" /\ c.retry0 /\ c.token0 = ""
    /\ Conflict(c, 1) /\ Conflict(c, 2)
    /\ c.resps[1].sid = "t1" /\ c.sent[2].sid = <<"t1">>
    /\ Len(c.sent) = 2

\* C2: a second send happens only after a first response of status 409 with
\* retry permitted; any other first response is handed back as it is after
\* one send, a failed first send ends the call after one send, and Do with
\* retry disabled never sends twice.
C2_RetryOnlyOnConflict ==
  \A p \in Procs :
    LET c == calls[p] IN
    /\ Len(c.sent) >= 2 => (c.retry0 /\ Conflict(c, 1))
    /\ ~c.retry0 => Len(c.sent) <= 1
    /\ (c.pc = "done" /\ Len(c.resps) >= 1 /\ ~(c.retry0 /\ Conflict(c, 1))) =>
         /\ Len(c.sent) = 1 /\ Len(c.resps) = 1
         /\ c.ret.some /\ c.ret.err = NoErr
         /\ c.ret.status = c.resps[1].status
    /\ (c.pc = "done" /\ Len(c.resps) = 0 /\ c.ret.err.kind = "send") =>
         Len(c.sent) = 1

\* Do with retry disabled got a 409 and handed it back after one send
C2_Witness ==
  \E p \in Procs :
    LET c == calls[p] IN
    /\ c.pc = "done" /\ c.op = "Do" /\ ~c.retry0
    /\ Conflict(c, 1) /\ Len(c.sent) = 1
    /\ c.out.kind = "ok" /\ c.out.status = StatusConflict

\* C3: the body sent on the retry is the body sent on the first attempt,
\* whole.
C3_BodyReplayed ==
  \A p \in Procs :
    LET c == calls[p] IN
    Len(c.sent) >= 2 =>
      /\ c.sent[2].body = c.sent[1].body
      /\ c.sent[2].body # <<>>

\* a RemoveTorrents call has sent its envelope twice
C3_Witness ==
  \E p \in Procs :
    LET c == calls[p] IN
    /\ c.op = "RemoveTorrents" /\ c.ids = <<3, 12>>
    /\ Len(c.sent) = 2 /\ Conflict(c, 1)
    /\ c.sent[2].body = Marshal(TorrentRemove, removeTorrentArg(c.ids, TRUE))

\* C4 (as claimed): when the first attempt is answered 409 with session id t
\* and the retry is answered with a body that decodes with result "success",
\* request returns no error, the retry carried t as its session-id header,
\* and the client holds t after the call.
C4_Claimed ==
  \A p \in Procs :
    LET c == calls[p] IN
    (/\ GotBody(c) /\ c.retry0 /\ Conflict(c, 1) /\ Len(c.resps) = 2
     /\ c.resps[1].sid # ""
     /\ ~Decoded(c).err /\ Decoded(c).v.Result = Success) =>
      /\ c.rerr = NoErr
      /\ HeaderGet(c.sent[2].sid) = c.resps[1].sid
      /\ sessionID = c.resps[1].sid

\* C5: the first attempt of a call carries the token of the most recent 409
\* handshake of the calls before it, and no session-id header while no token
\* has been captured.
C5_FirstAttemptCarriesCaptured ==
  \A p \in Procs :
    LET c == calls[p] IN
    (Len(c.sent) = 1 /\ Len(c.resps) = 0) =>
      /\ c.sent[1].sid = (IF captured.tok = "" THEN <<>> ELSE <<captured.tok>>)
      /\ ~captured.has => c.sent[1].sid = <<>>

\* a first attempt in flight carries the token an earlier call captured
C5_Witness ==
  \E p \in Procs :
    LET c == calls[p] IN
    /\ c.pc = "inflight" /\ Len(c.sent) = 1 /\ Len(c.resps) = 0
    /\ captured.has /\ captured.tok = "t2"
    /\ c.sent[1].sid = <<"t2">>

\* C6 (as claimed): when the retry is answered 409 as well, request returns an
\* error, whatever the body of that 409, and nothing more is sent.
C6_Claimed ==
  \A p \in Procs :
    LET c == calls[p] IN
    (c.pc = "done" /\ c.op \in RequestOps /\ Conflict(c, 1) /\ Conflict(c, 2)) =>
      /\ c.rerr.kind # "none"
      /\ c.out.kind = "err"
      /\ Len(c.sent) = 2

\* the response decoded, and its result string is not "success"
ProtocolFailure(c) ==
  GotBody(c) /\ ~Decoded(c).err /\ Decoded(c).v.Result # Success

\* C7 (as claimed): when the response decodes and its result string is not
\* "success", the operation fails with a protocol error whose message is
\* exactly the daemon's result string, nothing added.
C7_Claimed ==
  \A p \in Procs :
    LET c == calls[p] IN
    ProtocolFailure(c) =>
      /\ c.out.kind = "err" /\ c.out.err.kind = "protocol"
      /\ c.out.err.msg = Decoded(c).v.Result

\* C8: for a final response whose status is not 409, request returns no
\* error exactly when the body decodes with result "success", whatever the
\* status; a body that does not decode gives a decode error and any other
\* result string a protocol error.
C8_OutcomeFromBodyAlone ==
  \A p \in Procs :
    LET c == calls[p] IN
    (GotBody(c) /\ c.ret.status # StatusConflict) =>
      /\ c.rerr.kind = "none" <=>
           (~Decoded(c).err /\ Decoded(c).v.Result = Success)
      /\ Decoded(c).err => c.rerr.kind = "decode"
      /\ (~Decoded(c).err /\ Decoded(c).v.Result # Success) =>
           c.rerr.kind = "protocol"

\* a 500 whose body says "success" was taken as a success
C8_Witness ==
  \E p \in Procs :
    LET c == calls[p] IN
    /\ GotBody(c) /\ c.op = "RemoveTorrents" /\ c.ret.status = 500
    /\ Decoded(c).v.Result = Success /\ c.rerr = NoErr /\ c.out.kind = "ok"

\* C9: every torrent GetTorrents or AddTorrent returns without error refers
\* back to the client that made the call.
C9_BackReference ==
  \A p \in Procs :
    LET c == calls[p] IN
    (c.pc = "done" /\ c.op \in {"GetTorrents", "AddTorrent"} /\ c.out.kind = "ok") =>
      /\ \A i \in 1..Len(c.out.torrents) : c.out.torrents[i].Client = ThisClient
      /\ c.op = "AddTorrent" => Len(c.out.torrents) = 1
      /\ c.op = "GetTorrents" =>
           Len(c.out.torrents) = Len(c.ret.body.arguments.torrents.items)

\* GetTorrents returned as many torrents as the bound allows
C9_Witness ==
  \E p \in Procs :
    LET c == calls[p] IN
    /\ c.pc = "done" /\ c.op = "GetTorrents" /\ c.out.kind = "ok"
    /\ Len(c.out.torrents) = MaxTorrents
    /\ c.out.torrents[1] = [ID |-> 3, Client |-> ThisClient]

\* C10 (as claimed): RemoveTorrents of two torrents with removeData sends the
\* arguments {"ids":["<id1>","<id2>"],"delete-local-data":true}, each
\* identifier a string.
C10_Claimed ==
  \A p \in Procs :
    LET c == calls[p] IN
    (c.op = "RemoveTorrents" /\ Len(c.ids) = 2 /\ c.removeData /\ Len(c.sent) >= 1) =>
      c.sent[1].body =
        Str(<<"{","\"","m","e","t","h","o","d","\"",":",
              "\"","t","o","r","r","e","n","t","-","r","e","m","o","v","e","\"",",",
              "\"","a","r","g","u","m","e","n","t","s","\"",":","{",
              "\"","i","d","s","\"",":","[","\"">>)
        \o Itoa(c.ids[1]) \o Str(<<"\"",",","\"">>) \o Itoa(c.ids[2])
        \o Str(<<"\"","]",",","\"","d","e","l","e","t","e","-","l","o","c","a","l","-",
                 "d","a","t","a","\"",":","t","r","u","e","}","}">>)

\* the session-id header values of a request that carries token alone
TokenList(token) == IF token = "" THEN <<>> ELSE <<token>>

\* C11 (as claimed): every operation ends either with a result and no error
\* or with an error and no result, whatever the daemon replies; a "success"
\* reply without the expected record does not crash it.
C11_Claimed ==
  \A p \in Procs :
    LET c == calls[p] IN
    (c.pc = "done" /\ c.op \in RequestOps) =>
      \/ c.out.kind = "ok" /\ c.out.err = NoErr
      \/ c.out.kind = "err" /\ c.out.err # NoErr /\ c.out.torrents = NoTorrents

\* in this step the transport's response to call p is handled
Handles(p) == Len(calls'[p].resps) = Len(calls[p].resps) + 1

\* the response handled in this step
Handled(p) == calls'[p].resps[Len(calls'[p].resps)]

\* the attempt of call p now with the transport is one that may be retried
RetryPermitted(p) ==
  calls[p].pc = "inflight" /\ calls[p].retry0 /\ Len(calls[p].sent) = 1

\* C12: the configuration and the endpoint never change; the token changes
\* only in a step that handles a 409 with retry permitted, and such a step
\* leaves exactly that response's session id as the token.
C12_TokenFrame ==
  [][ /\ conf' = conf
      /\ endpoint' = endpoint
      /\ \A p \in Procs :
           (Handles(p) /\ RetryPermitted(p) /\ Handled(p).status = StatusConflict)
             => sessionID' = Handled(p).sid
      /\ sessionID' # sessionID =>
           \E p \in Procs :
             Handles(p) /\ RetryPermitted(p) /\ Handled(p).status = StatusConflict
    ]_vars

\* a held token has been overwritten by the one a later 409 named
C12_Witness ==
  \E p \in Procs :
    LET c == calls[p] IN
    /\ c.token0 = "t1" /\ Conflict(c, 1) /\ c.resps[1].sid = "t2"
    /\ sessionID = "t2" /\ conf.Address = DefaultAddress

\* C13 (as claimed): every request sent carries as session-id header the
\* token the client holds when it is sent, and nothing else.
C13_Claimed ==
  \A p \in Procs :
    LET c == calls[p] IN
    /\ Len(c.sent) >= 1 => c.sent[1].sid = TokenList(c.token0)
    /\ Len(c.sent) >= 2 => c.sent[2].sid = TokenList(c.resps[1].sid)

\* C14 (as claimed): once a 409 was answered to an attempt with retry
\* permitted, the client holds a non-empty token.
C14_Claimed ==
  \A p \in Procs :
    LET c == calls[p] IN
    (c.retry0 /\ Conflict(c, 1)) => sessionID # ""

\* C14 (amended): once a 409 was answered to an attempt with retry permitted,
\* the client holds that response's session id, when the retry is sent and
\* afterwards: a non-empty token exactly when the 409 named one, and the empty
\* token, whatever it held before, when the 409 carried no session id.
C14_HoldsWhatConflictNamed ==
  /\ captured.has => sessionID = captured.tok
  /\ \A p \in Procs :
       LET c == calls[p] IN
       (c.retry0 /\ Conflict(c, 1)) =>
         /\ Len(c.sent) = 2
         /\ sessionID = c.resps[1].sid
         /\ sessionID # "" <=> c.resps[1].sid # ""

\* a client holding a token was answered a 409 without session id
C14_Witness ==
  \E p \in Procs :
    LET c == calls[p] IN
    /\ c.retry0 /\ c.token0 = "t1" /\ Conflict(c, 1) /\ c.resps[1].sid = ""
    /\ Len(c.sent) = 2 /\ sessionID = ""

\* C16: each request sent, first attempt or retry, carries the basic-auth
\* credentials exactly when both a user name and a password are configured;
\* with either empty, no request carries an Authorization header.
C16_BasicAuth ==
  \A p \in Procs :
    LET c == calls[p] IN
    \A i \in 1..Len(c.sent) :
      /\ (conf.User # "" /\ conf.Password # "") =>
           c.sent[i].auth = <<conf.User, conf.Password>>
      /\ (conf.User = "" \/ conf.Password = "") => c.sent[i].auth = <<>>

\* with a user name and no password, a call retried without credentials
C16_Witness ==
  \E p \in Procs :
    LET c == calls[p] IN
    /\ conf.User = "u" /\ conf.Password = ""
    /\ Len(c.sent) = 2 /\ c.sent[1].auth = <<>> /\ c.sent[2].auth = <<>>

\* the call failed before anything was handed to the transport
LocalFailure(c) ==
  c.pc = "done" /\ c.ret.err.kind \in {"marshal", "newrequest", "bodyread"}

\* C18: a call that fails locally, before sending, returns an error, has sent
\* nothing and leaves the token as it was.
C18_LocalFailure ==
  \A p \in Procs :
    LET c == calls[p] IN
    /\ LocalFailure(c) =>
         /\ c.out.kind = "err" /\ c.out.err = c.ret.err
         /\ c.sent = <<>> /\ c.resps = <<>>
         /\ sessionID = c.token0
    /\ (c.pc = "done" /\ c.op \in RequestOps /\ endpoint = BadAddress) =>
         LocalFailure(c)
    /\ (c.pc = "done" /\ c.op = "Do" /\ ~c.req.body.readable) =>
         LocalFailure(c)

\* the request could not be built for a client that holds no token
C18_Witness ==
  \E p \in Procs :
    LET c == calls[p] IN
    /\ c.op = "RemoveTorrents" /\ LocalFailure(c)
    /\ c.ret.err.kind = "newrequest" /\ c.out.kind = "err" /\ c.sent = <<>>

\* call c is over and both its attempts were answered 409
TwiceConflict(c) ==
  c.pc = "done" /\ c.retry0 /\ Conflict(c, 1) /\ Conflict(c, 2)

\* C19: when both attempts of a call are answered 409, the client holds the
\* session id of the first 409 once the call is over and keeps it when the
\* call returns; the first attempt of the call that follows carries the token
\* held, so it carries the first 409's value, not the second's.
C19_SecondConflictNotCaptured ==
  [][ \A p \in Procs :
        LET c == calls[p] d == calls'[p] IN
        /\ TwiceConflict(c) =>
             /\ sessionID = c.resps[1].sid
             /\ sessionID' = c.resps[1].sid
             /\ captured.tok = c.resps[1].sid
        /\ (c.pc = "idle" /\ d.pc = "inflight") =>
             /\ d.sent = <<[auth |-> d.sent[1].auth, sid |-> TokenList(sessionID),
                            body |-> d.sent[1].body]>>
             /\ sessionID = captured.tok
    ]_vars

\* two 409 that named different session ids, the first one held
C19_Witness ==
  \E p \in Procs :
    LET c == calls[p] IN
    /\ TwiceConflict(c) /\ c.resps[1].sid = "t1" /\ c.resps[2].sid = "t2"
    /\ sessionID = "t1"

\* C20: a call that fails after capturing a token from a 409 leaves the
\* captured token with the client; a call that fails without a 409 leaves the
\* token as it was before the call.
C20_NoRollback ==
  \A p \in Procs :
    LET c == calls[p] IN
    (c.pc = "done" /\ c.out.kind = "err") =>
      /\ (c.retry0 /\ Conflict(c, 1)) => sessionID = c.resps[1].sid
      /\ ~Conflict(c, 1) => sessionID = c.token0

\* the retry's send failed after "t2" had replaced "t1"
C20_Witness ==
  \E p \in Procs :
    LET c == calls[p] IN
    /\ c.pc = "done" /\ c.out.kind = "err" /\ c.out.err.kind = "send"
    /\ c.token0 = "t1" /\ Conflict(c, 1) /\ c.resps[1].sid = "t2"
    /\ Len(c.sent) = 2 /\ Len(c.resps) = 1 /\ sessionID = "t2"

\* C17: provided each exchange handed to the transport completes in the end
\* (the transport returns a response or an error, and a response's body
\* arrives or its read fails), a call sends once or, on a first 409, twice,
\* and a call that has handed a request to the transport returns to its
\* caller in the end, with no error or with one of request's errors.
C17_Terminates ==
  /\ [](\A p \in Procs :
          LET c == calls[p] IN
          /\ c.pc \in {"idle", "inflight", "body", "done"}
          /\ Len(c.sent) <= 2
          /\ c.pc = "inflight" => Len(c.sent) = Len(c.resps) + 1
          /\ c.pc = "body" => (c.op \in RequestOps /\ Len(c.sent) = Len(c.resps))
          /\ (c.pc = "done" /\ c.op \in RequestOps) =>
               c.rerr.kind \in {"none", "newrequest", "send", "read", "decode", "protocol"})
  /\ \A p \in Procs : (calls[p].pc \in {"inflight", "body"}) ~> (calls[p].pc = "done")

\* request has returned after the retry that followed a 409
C17_Witness ==
  \E p \in Procs :
    LET c == calls[p] IN
    /\ c.pc = "done" /\ c.op = "GetTorrents" /\ Len(c.sent) = 2
    /\ Conflict(c, 1) /\ c.ret.some /\ c.rerr.kind = "decode"

----------------------------------------------------------------------------
(* Two unsynchronized calls (SpecRace) *)

\* both calls were answered 409 on their first attempt
BothConflict == \A p \in Procs : Conflict(calls[p], 1)

\* the session ids the first 409 of either call named
ConflictSids == { calls[q].resps[1].sid : q \in { r \in Procs : Conflict(calls[r], 1) } }

\* the value Do added to the request last
LastValue(values) == IF values = <<>> THEN "" ELSE values[Len(values)]

AllReturned == \A p \in Procs : calls[p].pc = "done"

\* C15 (as claimed): when two calls run concurrently on one client without
\* synchronization and both receive 409 on their first attempt, each call
\* performs exactly one retry, every session id a retry carries is the whole
\* value one of the two 409 responses named, and the token held once both
\* have returned is the value of the assignment that completed last, never a
\* mixture.
C15_Claimed ==
  BothConflict =>
    /\ \A p \in Procs :
         LET c == calls[p] IN
         /\ c.pc # "crashed"
         /\ Len(c.sent) <= 2
         /\ c.pc = "done" => Len(c.sent) = 2
         /\ Len(c.sent) = 2 =>
              \A i \in DOMAIN c.sent[2].sid : c.sent[2].sid[i] \in ConflictSids
    /\ (AllReturned /\ captured.has) => sessionID = captured.tok

\* C15 (amended): when two calls run concurrently on one client without
\* synchronization and both receive 409 on their first attempt, no call
\* sends more than twice and a call that returns has performed exactly one
\* retry; a call does not return when the process has panicked, which
\* happens only as a call hands over a header value that is a length above
\* 0 at the nil pointer.  The words of c.sessionID are always words of
\* session ids that 409 responses named, or of the empty initial value.  What
\* a retry adds to the header its first attempt carried is the whole value
\* one of the two 409 responses named (nothing, when that value is empty)
\* when, as the retry read c.sessionID, no assignment was in progress, the
\* assignment completed last before overlapped no other and the field did
\* not change between the test and the use; the token held once both have
\* returned is the value of the assignment that completed last when that
\* assignment overlapped no other.
C15_WholeUnlessStoresOverlap ==
  BothConflict =>
    /\ \A p \in Procs :
         LET c == calls[p] IN
         /\ Len(c.sent) <= 2
         /\ c.pc = "done" => Len(c.sent) = 2
         /\ (c.pc = "crashed" /\ c.out = Panic) => (c.hdr /\ NilString(c.tok))
         /\ (Len(c.sent) = 2 /\ ~c.racy) =>
              \E t \in ConflictSids : c.sent[2].sid = c.sent[1].sid \o TokenList(t)
    /\ mem.ptr \in ConflictSids \cup {""}
    /\ mem.len \in { Len(s) : s \in ConflictSids \cup {""} }
    /\ (AllReturned /\ captured.has /\ captured.clean) => sessionID = captured.tok

\* both calls have returned after one retry each, the assignments did not
\* overlap, and one retry carried the session id the other call's 409 named
C15_Witness ==
  /\ BothConflict /\ AllReturned /\ captured.clean
  /\ \A p \in Procs : Len(calls[p].sent) = 2 /\ ~calls[p].racy
  /\ \E p \in Procs :
       /\ LastValue(calls[p].sent[2].sid) # calls[p].resps[1].sid
       /\ LastValue(calls[p].sent[2].sid) \in ConflictSids
  /\ sessionID = captured.tok

====
